---------------------------- MODULE Spec2Model ----------------------------
(***************************************************************************)
(* pgmug: an OIDC-authenticating gateway in front of PostgreSQL.           *)
(*                                                                         *)
(* The parts of the program are modelled each with its own next-state      *)
(* relation over the same variables:                                       *)
(*   SpecGate     - PostgresPool::get_client and the two handlers that use *)
(*                  it (src/src/postgres.rs, src/src/main.rs)              *)
(*   SpecConn     - the same with the driver tasks of the connections      *)
(*   SpecStream   - the same with requests that arrive without end         *)
(*   SpecCache    - OidcValidator::get_jwks / fetch_jwks called by         *)
(*                  concurrent request tasks (src/src/oidc.rs)             *)
(*   SpecAuth     - auth_middleware and validate_token for one request at  *)
(*                  a time (src/src/oidc.rs)                               *)
(*   SpecRecover  - auth_middleware for one request after the other        *)
(*   SpecValidate - validate_token with the token's claims and the         *)
(*                  configuration spelled out (src/src/oidc.rs,            *)
(*                  src/src/config.rs)                                     *)
(*   SpecStartup  - main up to axum::serve (src/src/main.rs)               *)
(***************************************************************************)
EXTENDS Integers, Sequences, FiniteSets, TLC

(***************************************************************************)
(* Bounds of the model.                                                    *)
(***************************************************************************)
\* database.max_connections of the configuration under check
MaxConnections == 2

\* one request more than there are permits, so that an acquire must wait
NumRequests == MaxConnections + 1

Requests == 1..NumRequests

\* oidc.jwks_cache_duration_seconds of the configuration under check, in ticks
Ttl == 2

\* the clock runs far enough for a cached entry to go stale and be replaced
MaxTime == Ttl + 2

\* concurrent request tasks that call get_jwks
NumCallers == 2

Callers == 1..NumCallers

\* key ids a published key may carry (0: the key has no kid)
MaxKid == 1

\* keys in one published key-set document
MaxKeys == 2

\* the two routes whose handlers take a session (main.rs:203-204)
Handlers == {"execute_query", "execute_mutation"}

VARIABLES
    \* ---- PostgresPool (postgres.rs) and its callers (main.rs) ----
    permits,    \* Semaphore: the permits available
    waiters,    \* Semaphore: the FIFO queue of the tasks waiting in acquire_owned
    hpc,        \* position of each request task in its handler
    route,      \* the handler each request task runs
    holds,      \* number of OwnedSemaphorePermit values each task owns
    session,    \* whether the task's PostgresClient exists
    taken,      \* history: permits the task was given
    returned,   \* history: permits the task gave back
    hstatus,    \* HTTP status the handler answered with (0: none yet)
    hcause,     \* history: what ended the handler
    closing,    \* connections whose client is dropped and whose driver task runs on
    testconn,   \* the connection PostgresPool::new opens to test the database
    boot,       \* main: its position and what it has built
    \* ---- OidcValidator (oidc.rs) ----
    now,        \* the clock (Instant::now), in ticks
    cache,      \* jwks_cache: Option<CachedJwks>
    cpc,        \* position of each task in get_jwks / fetch_jwks
    cstart,     \* history: the time the task called get_jwks
    cseen,      \* history: the cache entry and its age as the task read them
    chit,       \* history: the task returned the cached key set
    cfetch,     \* history: the task sent a request to the identity provider
    cdoc,       \* the key set the task's fetch parsed
    cres,       \* what get_jwks returned to the task
    \* ---- auth_middleware (oidc.rs), one request ----
    apc,        \* position of the request in auth_middleware
    areq,       \* the request: its path and its Authorization header
    aout,       \* what the middleware did with it
    aprev,      \* history: how the request before this one ended
    \* ---- validate_token (oidc.rs), one call with its claims spelled out ----
    vpc,        \* position of the call
    vin,        \* its inputs: configuration, token, key set, clock, library
    vout        \* what it returned

gateVars ==
    <<permits, waiters, hpc, route, holds, session, taken, returned, hstatus,
      hcause, closing, testconn>>

oidcVars == <<now, cache, cpc, cstart, cseen, chit, cfetch, cdoc, cres>>

validateVars == <<vpc, vin, vout>>

authVars == <<apc, areq, aout>>

vars == <<gateVars, oidcVars, authVars, aprev, validateVars, boot>>

\* what the steps of one part leave alone
notGate == <<oidcVars, authVars, aprev, validateVars, boot, testconn>>

notCache == <<gateVars, authVars, aprev, validateVars, boot>>

notAuth == <<gateVars, cpc, cstart, cseen, chit, cfetch, cdoc, cres, validateVars, boot>>

\* what the steps of auth_middleware for one request leave alone
notServe == <<notAuth, aprev>>

notClock == <<gateVars, authVars, aprev, validateVars, boot>>

notValidate == <<gateVars, oidcVars, authVars, aprev, boot>>

(***************************************************************************)
(* tokio::sync::Semaphore as get_client uses it (one permit per acquire).  *)
(***************************************************************************)

\* an acquire that never waits
TryAcquireAlways(p) == TRUE

\* poll_acquire's fast path: a permit is taken at once iff one is available
TryAcquire(p) == p > 0

\* a release that hands the permit to the first waiter and also counts it free
AddPermitsDouble(p, w) ==
    IF w # <<>>
    THEN [permits |-> p + 1, woken |-> Head(w), waiters |-> Tail(w)]
    ELSE [permits |-> p + 1, woken |-> 0, waiters |-> w]

\* a release that only counts the permit free and wakes no waiter
AddPermitsNoWake(p, w) == [permits |-> p + 1, woken |-> 0, waiters |-> w]

\* Dropping an OwnedSemaphorePermit: the permit goes to the longest waiter
\* if there is one, and back to the counter otherwise.
AddPermits(p, w) ==
    IF w # <<>>
    THEN [permits |-> p, woken |-> Head(w), waiters |-> Tail(w)]
    ELSE [permits |-> p + 1, woken |-> 0, waiters |-> w]

\* the queue without task r (Acquire::drop unlinks the waiter)
RECURSIVE Unlink(_, _)
Unlink(w, r) ==
    IF w = <<>> THEN <<>>
    ELSE IF Head(w) = r THEN Unlink(Tail(w), r)
    ELSE <<Head(w)>> \o Unlink(Tail(w), r)

\* a handler that answers every failure with 500
StatusAlways500(cause) ==
    CASE cause = "connect" -> 500
      [] cause = "statement" -> 500
      [] cause = "ok" -> 200
      [] OTHER -> 0

\* The status the handlers answer with: 500 when get_client failed, 400
\* when the statement failed, 200 otherwise; a dropped task answers nothing.
StatusFor(cause) ==
    CASE cause = "connect" -> 500
      [] cause = "statement" -> 400
      [] cause = "ok" -> 200
      [] OTHER -> 0

\* Task r gives its permit back and moves to position pc; cause is what
\* ended it.  A client that existed is dropped with it: its connection
\* stays open until its driver task exits.
DropPermit(r, pc, cause) ==
    LET a == AddPermits(permits, waiters) IN
    /\ permits' = a.permits
    /\ waiters' = a.waiters
    /\ hpc' = [q \in Requests |->
                IF q = r THEN pc ELSE IF q = a.woken THEN "woken" ELSE hpc[q]]
    /\ holds' = [q \in Requests |->
                IF q = r THEN holds[r] - 1 ELSE IF q = a.woken THEN holds[q] + 1 ELSE holds[q]]
    /\ taken' = [q \in Requests |->
                IF q = a.woken /\ q # r THEN taken[q] + 1 ELSE taken[q]]
    /\ returned' = [returned EXCEPT ![r] = @ + 1]
    /\ session' = [session EXCEPT ![r] = FALSE]
    /\ closing' = IF session[r] THEN closing + 1 ELSE closing
    /\ hstatus' = [hstatus EXCEPT ![r] = StatusFor(cause)]
    /\ hcause' = [hcause EXCEPT ![r] = cause]

(***************************************************************************)
(* PostgresPool::get_client and the handlers execute_query and             *)
(* execute_mutation.                                                       *)
(***************************************************************************)

\* The handler starts and get_client polls acquire_owned for the first time:
\* it takes a permit at once, or queues behind the earlier waiters.
get_client_acquire(r) ==
    /\ UNCHANGED notGate
    /\ hpc[r] = "idle"
    /\ \E h \in Handlers : route' = [route EXCEPT ![r] = h]
    /\ IF TryAcquire(permits)
       THEN /\ permits' = permits - 1
            /\ holds' = [holds EXCEPT ![r] = @ + 1]
            /\ taken' = [taken EXCEPT ![r] = @ + 1]
            /\ hpc' = [hpc EXCEPT ![r] = "connecting"]
            /\ UNCHANGED waiters
       ELSE /\ waiters' = Append(waiters, r)
            /\ hpc' = [hpc EXCEPT ![r] = "waiting"]
            /\ UNCHANGED <<permits, holds, taken>>
    /\ UNCHANGED <<session, returned, hstatus, hcause, closing>>

\* A waiter that was handed a permit is polled again: acquire_owned returns.
get_client_wake(r) ==
    /\ UNCHANGED notGate
    /\ hpc[r] = "woken"
    /\ hpc' = [hpc EXCEPT ![r] = "connecting"]
    /\ UNCHANGED <<permits, waiters, route, holds, session, taken, returned, hstatus,
                   hcause, closing>>

\* tokio_postgres::connect succeeds: the PostgresClient takes the permit.
get_client_ok(r) ==
    /\ UNCHANGED notGate
    /\ hpc[r] = "connecting"
    /\ session' = [session EXCEPT ![r] = TRUE]
    /\ hpc' = [hpc EXCEPT ![r] = "querying"]
    /\ UNCHANGED <<permits, waiters, route, holds, taken, returned, hstatus, hcause, closing>>

\* a connect failure that keeps the permit (as mem::forget would)
get_client_err_leak(r) ==
    /\ UNCHANGED notGate
    /\ hpc[r] = "connecting"
    /\ hpc' = [hpc EXCEPT ![r] = "done"]
    /\ hstatus' = [hstatus EXCEPT ![r] = 500]
    /\ hcause' = [hcause EXCEPT ![r] = "connect"]
    /\ holds' = [holds EXCEPT ![r] = 0]
    /\ UNCHANGED <<permits, waiters, route, session, taken, returned, closing>>

\* tokio_postgres::connect fails: `?` returns, the local permit is dropped,
\* and the handler maps the error to 500.
get_client_err(r) ==
    /\ UNCHANGED notGate
    /\ hpc[r] = "connecting"
    /\ DropPermit(r, "done", "connect")
    /\ UNCHANGED route

\* client.query / client.execute returns Ok: 200, and the client is dropped
\* when the handler returns.
handler_ok(r) ==
    /\ UNCHANGED notGate
    /\ hpc[r] = "querying"
    /\ DropPermit(r, "done", "ok")
    /\ UNCHANGED route

\* client.query / client.execute returns Err: 400, and the client is dropped
\* when the handler returns.
handler_err(r) ==
    /\ UNCHANGED notGate
    /\ hpc[r] = "querying"
    /\ DropPermit(r, "done", "statement")
    /\ UNCHANGED route

\* The request task is dropped (the peer went away) while it waits in the
\* queue: Acquire::drop unlinks it; it owns nothing.
cancel_waiting(r) ==
    /\ UNCHANGED notGate
    /\ hpc[r] = "waiting"
    /\ waiters' = Unlink(waiters, r)
    /\ hpc' = [hpc EXCEPT ![r] = "cancelled"]
    /\ UNCHANGED <<permits, route, holds, session, taken, returned, hstatus, hcause, closing>>

\* The request task is dropped while it owns a permit: handed over but not
\* yet polled, connecting, or running its statement.
cancel_holding(r) ==
    /\ UNCHANGED notGate
    /\ hpc[r] \in {"woken", "connecting", "querying"}
    /\ DropPermit(r, "cancelled", "cancelled")
    /\ UNCHANGED route

\* The task of request r has ended and the next request arrives in its
\* place; the history of the ended one is forgotten.  Requests keep coming
\* as long as the driver tasks of the dropped clients have ended.
next_request(r) ==
    /\ UNCHANGED notGate
    /\ hpc[r] \in {"done", "cancelled"}
    /\ closing = 0
    /\ hpc' = [hpc EXCEPT ![r] = "idle"]
    /\ route' = [route EXCEPT ![r] = "execute_query"]
    /\ taken' = [taken EXCEPT ![r] = 0]
    /\ returned' = [returned EXCEPT ![r] = 0]
    /\ hstatus' = [hstatus EXCEPT ![r] = 0]
    /\ hcause' = [hcause EXCEPT ![r] = "none"]
    /\ UNCHANGED <<permits, waiters, holds, session, closing>>

\* The driver task of a dropped client ends (tokio::spawn of connection,
\* postgres.rs:59-63): the connection is closed.
driver_exit ==
    /\ UNCHANGED notGate
    /\ closing > 0
    /\ closing' = closing - 1
    /\ UNCHANGED <<permits, waiters, hpc, route, holds, session, taken, returned,
                   hstatus, hcause>>

\* The driver task of the test connection ends (postgres.rs:26-30).
test_driver_exit ==
    /\ testconn = "closing"
    /\ testconn' = "closed"
    /\ UNCHANGED <<permits, waiters, hpc, route, holds, session, taken, returned,
                   hstatus, hcause, closing>>
    /\ UNCHANGED <<oidcVars, authVars, aprev, validateVars, boot>>

(***************************************************************************)
(* OidcValidator: the key-set cache (get_jwks, fetch_jwks).                *)
(***************************************************************************)

\* JwksKey: kid (0: None) and kty.  The published keys carry the parameters
\* of their kty (n and e, or x and y), well-formed.
Ktys == {"RSA", "EC", "oct"}

JwksKey == [kid : 0..MaxKid, kty : Ktys]

\* Jwks: the keys of one published document, in the document's order
Jwks == UNION {[1..n -> JwksKey] : n \in 0..MaxKeys}

\* the documents the provider serves before and after one key rotation
DocOld == <<[kid |-> 1, kty |-> "RSA"]>>

DocNew == <<[kid |-> 0, kty |-> "RSA"]>> \o DocOld

Rotation == {DocOld, DocNew}

\* Option<CachedJwks>
NoCache == [some |-> FALSE, jwks |-> <<>>, cached_at |-> 0]

CachedJwks(jwks, at) == [some |-> TRUE, jwks |-> jwks, cached_at |-> at]

\* Result<Jwks>
OkJwks(jwks) == [ok |-> TRUE, jwks |-> jwks]

ErrJwks == [ok |-> FALSE, jwks |-> <<>>]

NoResult == [ok |-> FALSE, jwks |-> <<"pending">>]

\* a freshness test that still accepts an entry exactly ttl old
IsFreshInclusive(age, ttl) == age <= ttl

\* get_jwks: cache_age < Duration::from_secs(jwks_cache_duration_seconds)
IsFresh(age, ttl) == age < ttl

\* cached_at.elapsed()
Elapsed(at) == now - at

\* get_jwks up to its first await on the network: under the read lock it
\* returns the cached set if there is one and it is fresh; otherwise it drops
\* the lock and fetch_jwks sends its request.
get_jwks_call(c) ==
    /\ UNCHANGED notCache
    /\ cpc[c] = "idle"
    /\ cstart' = [cstart EXCEPT ![c] = now]
    /\ cseen' = [cseen EXCEPT ![c] =
                    [some |-> cache.some, age |-> Elapsed(cache.cached_at), jwks |-> cache.jwks]]
    /\ IF cache.some /\ IsFresh(Elapsed(cache.cached_at), Ttl)
       THEN /\ cres' = [cres EXCEPT ![c] = OkJwks(cache.jwks)]
            /\ chit' = [chit EXCEPT ![c] = TRUE]
            /\ cpc' = [cpc EXCEPT ![c] = "done"]
            /\ UNCHANGED cfetch
       ELSE /\ cfetch' = [cfetch EXCEPT ![c] = TRUE]
            /\ cpc' = [cpc EXCEPT ![c] = "in_flight"]
            /\ UNCHANGED <<cres, chit>>
    /\ UNCHANGED <<now, cache, cdoc>>

\* a failed fetch that throws the cached entry away
fetch_jwks_err_clear(c) ==
    /\ UNCHANGED notCache
    /\ cpc[c] = "in_flight"
    /\ cache' = NoCache
    /\ cres' = [cres EXCEPT ![c] = ErrJwks]
    /\ cpc' = [cpc EXCEPT ![c] = "done"]
    /\ UNCHANGED <<now, cstart, cseen, chit, cfetch, cdoc>>

\* fetch_jwks fails: the request fails, the status is not a success, or the
\* body is no key-set document.  The cache is not touched.
fetch_jwks_err(c) ==
    /\ UNCHANGED notCache
    /\ cpc[c] = "in_flight"
    /\ cres' = [cres EXCEPT ![c] = ErrJwks]
    /\ cpc' = [cpc EXCEPT ![c] = "done"]
    /\ UNCHANGED <<now, cache, cstart, cseen, chit, cfetch, cdoc>>

\* fetch_jwks receives and parses the document d the provider serves.
fetch_jwks_recv(c, d) ==
    /\ UNCHANGED notCache
    /\ cpc[c] = "in_flight"
    /\ cdoc' = [cdoc EXCEPT ![c] = d]
    /\ cpc' = [cpc EXCEPT ![c] = "parsed"]
    /\ UNCHANGED <<now, cache, cstart, cseen, chit, cfetch, cres>>

\* fetch_jwks takes the write lock, replaces the entry and returns the set.
fetch_jwks_store(c) ==
    /\ UNCHANGED notCache
    /\ cpc[c] = "parsed"
    /\ cache' = CachedJwks(cdoc[c], now)
    /\ cres' = [cres EXCEPT ![c] = OkJwks(cdoc[c])]
    /\ cpc' = [cpc EXCEPT ![c] = "done"]
    /\ UNCHANGED <<now, cstart, cseen, chit, cfetch, cdoc>>

\* time passes
tick ==
    /\ UNCHANGED notClock
    /\ now < MaxTime
    /\ now' = now + 1
    /\ UNCHANGED <<cache, cpc, cstart, cseen, chit, cfetch, cdoc, cres>>

\* no task has called get_jwks
InitCallers ==
    /\ cpc = [c \in Callers |-> "idle"]
    /\ cstart = [c \in Callers |-> 0]
    /\ cseen = [c \in Callers |-> [some |-> FALSE, age |-> 0, jwks |-> <<>>]]
    /\ chit = [c \in Callers |-> FALSE]
    /\ cfetch = [c \in Callers |-> FALSE]
    /\ cdoc = [c \in Callers |-> <<>>]
    /\ cres = [c \in Callers |-> NoResult]

\* OidcValidator::new: the cache is empty, then fetch_jwks pre-loads the
\* document d; the validator exists only if that fetch succeeded.
InitOidc(d) ==
    /\ now = 0
    /\ cache = CachedJwks(d, 0)
    /\ InitCallers

(***************************************************************************)
(* OidcValidator::validate_token and auth_middleware.                      *)
(***************************************************************************)

\* Option<&JwksKey>::None
NoKey == [kid |-> 0 - 1, kty |-> "none"]

\* A bearer token: whether its header parses, the kid (0: none) and alg the
\* header declares, the key whose private half signed it (NoKey: no
\* published key did), and whether its claims pass the library's checks of
\* iss, aud and exp.
BadToken == [hdr |-> "bad", kid |-> 0, alg |-> "RS256", sig |-> NoKey, claims |-> "bad"]

Tokens ==
    {BadToken} \cup
    [hdr : {"ok"}, kid : 0..MaxKid, alg : {"RS256", "ES256"},
     sig : JwksKey \cup {NoKey}, claims : {"ok", "bad"}]

\* a token no check rejects when its key is published
GoodToken ==
    [hdr |-> "ok", kid |-> 1, alg |-> "RS256",
     sig |-> [kid |-> 1, kty |-> "RSA"], claims |-> "ok"]

\* The Authorization header: absent, not visible ASCII (to_str fails), or a
\* text that starts with a scheme and carries a credential.
Headers ==
    {[kind |-> k, scheme |-> "", cred |-> BadToken] : k \in {"absent", "opaque"}}
    \cup {[kind |-> "text", scheme |-> sch, cred |-> GoodToken] : sch \in {"Basic ", "bearer "}}
    \cup {[kind |-> "text", scheme |-> "Bearer ", cred |-> t] : t \in Tokens}

\* the routes of the router (main.rs:202-204)
Paths == {"/health", "/query", "/execute"}

RouteHandler(path) ==
    CASE path = "/health" -> "health_check"
      [] path = "/query" -> "execute_query"
      [] path = "/execute" -> "execute_mutation"

HttpRequests ==
    [path : Paths \ {"/health"}, auth : Headers]
    \cup [path : {"/health"}, auth : {h \in Headers : h.cred \in {BadToken, GoodToken}}]

\* headers.get("authorization").and_then(|value| value.to_str().ok())
HeaderText(h) == h.kind = "text"

\* auth_header.strip_prefix("Bearer ")
StripsBearer(h) == h.scheme = "Bearer "

\* decode_header(token): Ok iff the token's header parses
decode_header(t) == t.hdr = "ok"

\* the positions of the keys of jwks that carry kid
Matches(jwks, kid) == {i \in 1..Len(jwks) : jwks[i].kid = kid}

\* a key lookup that falls back to the first key when no kid matches
find_key_or_first(jwks, kid) ==
    IF jwks = <<>> THEN NoKey
    ELSE IF kid # 0 /\ Matches(jwks, kid) # {}
         THEN jwks[CHOOSE i \in Matches(jwks, kid) : \A j \in Matches(jwks, kid) : i <= j]
         ELSE jwks[1]

\* find_key: the first key whose kid equals the declared kid; with no kid
\* declared, the first key of the set.
find_key(jwks, kid) ==
    IF kid # 0
    THEN IF Matches(jwks, kid) # {}
         THEN jwks[CHOOSE i \in Matches(jwks, kid) : \A j \in Matches(jwks, kid) : i <= j]
         ELSE NoKey
    ELSE IF jwks # <<>> THEN jwks[1] ELSE NoKey

\* create_decoding_key: Ok for an RSA or EC key (its parameters are there),
\* Err("Unsupported key type") for any other kty
create_decoding_key(key) == key.kty \in {"RSA", "EC"}

\* decode::<Claims> under Validation::new(Algorithm::RS256): the header's alg
\* must be RS256, the key an RSA key, the signature made with that key's
\* private half, and the claims valid.
decode(t, key) ==
    /\ t.alg = "RS256"
    /\ key.kty = "RSA"
    /\ t.sig = key
    /\ t.claims = "ok"

\* validate_token from find_key on, with the key set get_jwks returned
validate_with(t, jwks) ==
    LET key == find_key(jwks, t.kid) IN
    IF key = NoKey
    THEN [vres |-> "err", err |-> "key_not_found", key |-> NoKey, verified |-> FALSE]
    ELSE IF ~create_decoding_key(key)
    THEN [vres |-> "err", err |-> "decoding_key", key |-> key, verified |-> FALSE]
    ELSE IF ~decode(t, key)
    THEN [vres |-> "err", err |-> "decode", key |-> key, verified |-> TRUE]
    ELSE [vres |-> "ok", err |-> "", key |-> key, verified |-> TRUE]

\* a middleware that lets every request through
AdmitAlways(vres) == TRUE

\* auth_middleware: the match on validate_token's result
Admit(vres) == vres = "ok"

\* an error response that tells the client why it was rejected
UnauthorizedBecause(err) == [status |-> 401, body |-> err]

\* Err(StatusCode::UNAUTHORIZED): the status alone, an empty body, whatever
\* the cause err (which only warn! writes, to the server log)
Unauthorized(err) == [status |-> 401, body |-> ""]

\* status and body 0 / "": the middleware made no response of its own
NoOutcome ==
    [status |-> 0, body |-> "", ran |-> "none", vres |-> "none", err |-> "",
     key |-> NoKey, verified |-> FALSE, got |-> FALSE, jwks |-> <<>>]

\* 401 before validate_token is called or before it has a key set
Reject(vres, err) ==
    [status |-> Unauthorized(err).status, body |-> Unauthorized(err).body,
     ran |-> "none", vres |-> vres, err |-> err, key |-> NoKey,
     verified |-> FALSE, got |-> FALSE, jwks |-> <<>>]

\* the rest of validate_token and of auth_middleware once get_jwks returned
Outcome(path, t, jwks) ==
    LET v == validate_with(t, jwks) IN
    [status |-> IF Admit(v.vres) THEN 0 ELSE Unauthorized(v.err).status,
     body |-> IF Admit(v.vres) THEN "" ELSE Unauthorized(v.err).body,
     ran |-> IF Admit(v.vres) THEN RouteHandler(path) ELSE "none",
     vres |-> v.vres, err |-> v.err, key |-> v.key, verified |-> v.verified,
     got |-> TRUE, jwks |-> jwks]

\* auth_middleware up to the first await on the network
auth_middleware_call ==
    /\ UNCHANGED notServe
    /\ apc = "start"
    /\ UNCHANGED <<areq, now, cache>>
    /\ IF areq.path = "/health"
       THEN /\ aout' = [NoOutcome EXCEPT !.ran = RouteHandler(areq.path)]
            /\ apc' = "done"
       ELSE IF ~HeaderText(areq.auth)
       THEN /\ aout' = Reject("none", "missing_header")
            /\ apc' = "done"
       ELSE IF ~StripsBearer(areq.auth)
       THEN /\ aout' = Reject("none", "header_format")
            /\ apc' = "done"
       ELSE IF ~decode_header(areq.auth.cred)
       THEN /\ aout' = Reject("err", "decode_header")
            /\ apc' = "done"
       ELSE IF cache.some /\ IsFresh(Elapsed(cache.cached_at), Ttl)
       THEN /\ aout' = Outcome(areq.path, areq.auth.cred, cache.jwks)
            /\ apc' = "done"
       ELSE /\ aout' = aout
            /\ apc' = "fetching"

\* a failed fetch that stamps the stale entry as if it had been refreshed
auth_middleware_fetch_err_stamped ==
    /\ UNCHANGED notServe
    /\ apc = "fetching"
    /\ aout' = Reject("err", "fetch_jwks")
    /\ apc' = "done"
    /\ cache' = CachedJwks(cache.jwks, now)
    /\ UNCHANGED <<areq, now>>

\* fetch_jwks fails: get_jwks's `?` ends validate_token, 401
auth_middleware_fetch_err ==
    /\ UNCHANGED notServe
    /\ apc = "fetching"
    /\ aout' = Reject("err", "fetch_jwks")
    /\ apc' = "done"
    /\ UNCHANGED <<areq, now, cache>>

\* fetch_jwks stores and returns the document d; validate_token goes on
auth_middleware_fetched(d) ==
    /\ UNCHANGED notServe
    /\ apc = "fetching"
    /\ cache' = CachedJwks(d, now)
    /\ aout' = Outcome(areq.path, areq.auth.cred, d)
    /\ apc' = "done"
    /\ UNCHANGED <<areq, now>>

\* the request of the parts that serve none
IdleRequest == CHOOSE rq \in HttpRequests : rq.path = "/health" /\ rq.auth.kind = "absent"

\* no request came before
NoPrev == [err |-> "", vres |-> "none"]

\* the response is sent, the process goes on and the next request arrives
auth_middleware_next(rq) ==
    /\ UNCHANGED notAuth
    /\ apc = "done"
    /\ aprev' = [err |-> aout.err, vres |-> aout.vres]
    /\ areq' = rq
    /\ aout' = NoOutcome
    /\ apc' = "start"
    /\ UNCHANGED <<now, cache>>

\* a request arrives
InitAuth(rq) ==
    /\ apc = "start"
    /\ areq = rq
    /\ aout = NoOutcome
    /\ aprev = NoPrev

(***************************************************************************)
(* OidcValidator::validate_token with the token's claims and the           *)
(* configuration spelled out.                                              *)
(***************************************************************************)
\* Option::None
None == "None"

\* Validation::new sets the leeway of the exp check, in seconds
Leeway == 60

\* the time get_current_timestamp returns while decode runs, in seconds
UnixNow == Leeway + 2

VerifyTimes == {UnixNow, UnixNow + 1}

\* OidcConfig: the configurations under check.  issuer_url and the cache
\* duration are fixed, every other field takes each kind of value.
OidcConfigs ==
    [issuer_url : {"https://issuer"},
     client_id : {"", "pgmug"},
     audience : {None, "api"},
     jwks_cache_duration_seconds : {Ttl},
     skip_validation : {None, "Some(false)", "Some(true)"},
     dev_secret : {None, "dev-secret"}]

\* Config::default()
ConfigDefault ==
    [server |-> [bind_address |-> "0.0.0.0:8080"],
     database |->
        [host |-> "localhost", port |-> 5432, username |-> "postgres",
         password |-> "password", database |-> "postgres", max_connections |-> 10],
     oidc |->
        [issuer_url |-> "https://your-oidc-provider.com",
         client_id |-> "your-client-id",
         audience |-> None,
         jwks_cache_duration_seconds |-> 3600,
         skip_validation |-> "Some(false)",
         dev_secret |-> None]]

\* the configuration with both development settings absent
NoBypass(cfg) == [cfg EXCEPT !.skip_validation = None, !.dev_secret = None]

\* the symmetric development secret as a signing key: no key set publishes it
DevSecretKey == [kid |-> 0 - 2, kty |-> "dev_secret"]

DocEc == <<[kid |-> 1, kty |-> "EC"]>>

\* the key sets get_jwks hands to the calls under check
ValidateDocs == Rotation \cup {DocEc}

PublishedKeys == UNION {{d[i] : i \in 1..Len(d)} : d \in ValidateDocs}

\* the alg a signer uses with a key
AlgOf(key) ==
    CASE key.kty = "RSA" -> "RS256"
      [] key.kty = "EC" -> "ES256"
      [] key.kty = "dev_secret" -> "HS256"
      [] OTHER -> "RS256"

\* A token with the fields of Claims (oidc.rs:18-27) that the checks read:
\* iss, aud, exp and sub.  The header's alg is the one of the signing key.
Jwts ==
    {[hdr |-> "ok", kid |-> k, alg |-> AlgOf(s), sig |-> s, iss |-> i, aud |-> a,
      exp |-> e, sub |-> u] :
        k \in 0..MaxKid, s \in PublishedKeys \cup {NoKey, DevSecretKey},
        i \in {"https://issuer", "https://other"},
        a \in {"api", "pgmug", "other"},
        e \in {UnixNow - Leeway - 1, UnixNow - Leeway, UnixNow - 1, UnixNow, UnixNow + 2},
        u \in {"alice", "bob"}}

\* a token whose header does not parse
BadJwt ==
    [hdr |-> "bad", kid |-> 0, alg |-> "RS256", sig |-> NoKey, iss |-> "https://other",
     aud |-> "other", exp |-> UnixNow - Leeway - 1, sub |-> "bob"]

\* validate_token's choice of the audience to require (oidc.rs:158-162)
ExpectedAudience(cfg) ==
    IF cfg.audience # None THEN cfg.audience
    ELSE IF cfg.client_id # "" THEN cfg.client_id
    ELSE None

\* a Validation whose validate_exp is off
ExpUnchecked(exp, time) == TRUE

\* the library's exp check: ExpiredSignature iff exp < now - leeway
NotExpired(exp, time) == ~(exp < time - Leeway)

\* The library's checks of the claims under the Validation that
\* validate_token builds: exp, iss, aud.  With no audience required, a
\* token that carries an aud passes or fails with the library's version
\* (strict: it fails).
ValidateClaims(cfg, t, time, strict) ==
    /\ NotExpired(t.exp, time)
    /\ t.iss = cfg.issuer_url
    /\ IF ExpectedAudience(cfg) = None THEN ~strict
       ELSE t.aud = ExpectedAudience(cfg)

\* the token as decode sees it: its claims pass the checks or do not
Checked(cfg, t, time, strict) ==
    [hdr |-> t.hdr, kid |-> t.kid, alg |-> t.alg, sig |-> t.sig,
     claims |-> IF ValidateClaims(cfg, t, time, strict) THEN "ok" ELSE "bad"]

\* a validate_token that honours the development settings: a token signed
\* with the configured dev secret is accepted, and so is every token when
\* skip_validation is Some(true)
validate_token_bypass(cfg, t, jwks, time, strict) ==
    IF \/ cfg.skip_validation = "Some(true)"
       \/ cfg.dev_secret # None /\ t.sig = DevSecretKey
    THEN [vres |-> "ok", err |-> "", sub |-> t.sub]
    ELSE LET v == validate_with(Checked(cfg, t, time, strict), jwks) IN
         [vres |-> v.vres, err |-> v.err,
          sub |-> IF v.vres = "ok" THEN t.sub ELSE ""]

\* validate_token, with the key set get_jwks returned: Ok(claims) or Err.
\* It reads issuer_url, client_id and audience of the configuration.
validate_token(cfg, t, jwks, time, strict) ==
    IF ~decode_header(t)
    THEN [vres |-> "err", err |-> "decode_header", sub |-> ""]
    ELSE LET v == validate_with(Checked(cfg, t, time, strict), jwks) IN
         [vres |-> v.vres, err |-> v.err,
          sub |-> IF v.vres = "ok" THEN t.sub ELSE ""]

NoVerdict == [vres |-> "none", err |-> "", sub |-> ""]

\* one call of validate_token runs to its end
validate_token_call ==
    /\ UNCHANGED notValidate
    /\ vpc = "start"
    /\ vout' = validate_token(vin.cfg, vin.tok, vin.jwks, vin.time, vin.strict)
    /\ vpc' = "done"
    /\ vin' = vin

IdleCall ==
    [cfg |-> CHOOSE c \in OidcConfigs : c.client_id = "pgmug" /\ c = NoBypass(c) /\ c.audience = None,
     tok |-> CHOOSE t \in Jwts : TRUE, jwks |-> DocOld, time |-> UnixNow, strict |-> FALSE]

InitValidate(call) ==
    /\ vpc = "start"
    /\ vin = call
    /\ vout = NoVerdict

(***************************************************************************)
(* main: the startup sequence.                                             *)
(***************************************************************************)
\* what the steps of main leave alone
notBoot ==
    <<waiters, hpc, route, holds, session, taken, returned, hstatus, hcause, closing,
      cpc, cstart, cseen, chit, cfetch, cdoc, cres, authVars, aprev, validateVars>>

\* the process has started and built nothing
BootStart ==
    [pc |-> "load_config", config |-> FALSE, validator |-> FALSE, pool |-> FALSE,
     listening |-> FALSE, accepted |-> FALSE, failed |-> ""]

\* `return Err(e)` from main: the process ends
Exit(step) == [boot EXCEPT !.pc = "exited", !.failed = step]

\* Config::load returns Ok
load_config_ok ==
    /\ UNCHANGED notBoot
    /\ boot.pc = "load_config"
    /\ boot' = [boot EXCEPT !.pc = "oidc_new", !.config = TRUE]
    /\ UNCHANGED <<permits, testconn, cache, now>>

\* Config::load returns Err
load_config_err ==
    /\ UNCHANGED notBoot
    /\ boot.pc = "load_config"
    /\ boot' = Exit("config")
    /\ UNCHANGED <<permits, testconn, cache, now>>

\* OidcValidator::new: the first fetch_jwks stores the document d
oidc_new_ok(d) ==
    /\ UNCHANGED notBoot
    /\ boot.pc = "oidc_new"
    /\ cache' = CachedJwks(d, now)
    /\ boot' = [boot EXCEPT !.pc = "pool_connect", !.validator = TRUE]
    /\ UNCHANGED <<permits, testconn, now>>

\* a startup that goes on without a key set when the first fetch fails
oidc_new_err_continue ==
    /\ UNCHANGED notBoot
    /\ boot.pc = "oidc_new"
    /\ boot' = [boot EXCEPT !.pc = "pool_connect"]
    /\ UNCHANGED <<permits, testconn, cache, now>>

\* OidcValidator::new: the first fetch_jwks fails
oidc_new_err ==
    /\ UNCHANGED notBoot
    /\ boot.pc = "oidc_new"
    /\ boot' = Exit("oidc")
    /\ UNCHANGED <<permits, testconn, cache, now>>

\* PostgresPool::new: tokio_postgres::connect returns the test connection
pool_connect_ok ==
    /\ UNCHANGED notBoot
    /\ boot.pc = "pool_connect"
    /\ testconn' = "open"
    /\ boot' = [boot EXCEPT !.pc = "pool_select"]
    /\ UNCHANGED <<permits, cache, now>>

\* PostgresPool::new: tokio_postgres::connect fails
pool_connect_err ==
    /\ UNCHANGED notBoot
    /\ boot.pc = "pool_connect"
    /\ boot' = Exit("connect")
    /\ UNCHANGED <<permits, testconn, cache, now>>

\* PostgresPool::new: SELECT 1 succeeds, the semaphore is made, the test
\* client is dropped on return
pool_select_ok ==
    /\ UNCHANGED notBoot
    /\ boot.pc = "pool_select"
    /\ permits' = MaxConnections
    /\ testconn' = "closing"
    /\ boot' = [boot EXCEPT !.pc = "bind", !.pool = TRUE]
    /\ UNCHANGED <<cache, now>>

\* PostgresPool::new: SELECT 1 fails
pool_select_err ==
    /\ UNCHANGED notBoot
    /\ boot.pc = "pool_select"
    /\ testconn' = "closing"
    /\ boot' = Exit("select")
    /\ UNCHANGED <<permits, cache, now>>

\* TcpListener::bind succeeds and axum::serve starts
bind_ok ==
    /\ UNCHANGED notBoot
    /\ boot.pc = "bind"
    /\ boot' = [boot EXCEPT !.pc = "serving", !.listening = TRUE]
    /\ UNCHANGED <<permits, testconn, cache, now>>

\* TcpListener::bind fails
bind_err ==
    /\ UNCHANGED notBoot
    /\ boot.pc = "bind"
    /\ boot' = Exit("bind")
    /\ UNCHANGED <<permits, testconn, cache, now>>

\* axum::serve accepts a request
serve_accept ==
    /\ UNCHANGED notBoot
    /\ boot.pc = "serving"
    /\ boot' = [boot EXCEPT !.accepted = TRUE]
    /\ UNCHANGED <<permits, testconn, cache, now>>

\* main has returned from every constructor and serves
Serving ==
    [pc |-> "serving", config |-> TRUE, validator |-> TRUE, pool |-> TRUE,
     listening |-> TRUE, accepted |-> FALSE, failed |-> ""]

\* no request has arrived
InitTasks ==
    /\ waiters = <<>>
    /\ closing = 0
    /\ hcause = [r \in Requests |-> "none"]
    /\ hpc = [r \in Requests |-> "idle"]
    /\ route = [r \in Requests |-> "execute_query"]
    /\ holds = [r \in Requests |-> 0]
    /\ session = [r \in Requests |-> FALSE]
    /\ taken = [r \in Requests |-> 0]
    /\ returned = [r \in Requests |-> 0]
    /\ hstatus = [r \in Requests |-> 0]

\* PostgresPool::new has returned: the semaphore holds max_connections
\* permits; the test client is dropped, its driver task may still run.
InitGate ==
    /\ permits = MaxConnections
    /\ testconn = "closing"
    /\ boot = Serving
    /\ InitTasks

NextGate ==
    \/ \E r \in Requests : get_client_acquire(r)
    \/ \E r \in Requests : get_client_wake(r)
    \/ \E r \in Requests : get_client_ok(r)
    \/ \E r \in Requests : get_client_err(r)
    \/ \E r \in Requests : handler_ok(r)
    \/ \E r \in Requests : handler_err(r)
    \/ \E r \in Requests : cancel_waiting(r)
    \/ \E r \in Requests : cancel_holding(r)

GateInit == InitGate /\ InitOidc(DocOld) /\ InitAuth(IdleRequest) /\ InitValidate(IdleCall)

SpecGate == GateInit /\ [][NextGate]_vars

\* the request tasks together with the driver tasks of the connections
NextConn ==
    \/ \E r \in Requests : get_client_acquire(r)
    \/ \E r \in Requests : get_client_wake(r)
    \/ \E r \in Requests : get_client_ok(r)
    \/ \E r \in Requests : get_client_err(r)
    \/ \E r \in Requests : handler_ok(r)
    \/ \E r \in Requests : handler_err(r)
    \/ \E r \in Requests : cancel_waiting(r)
    \/ \E r \in Requests : cancel_holding(r)
    \/ driver_exit
    \/ test_driver_exit

SpecConn == GateInit /\ [][NextConn]_vars

NextCache ==
    \/ \E c \in Callers : get_jwks_call(c)
    \/ \E c \in Callers : fetch_jwks_err(c)
    \/ \E c \in Callers, d \in Rotation : fetch_jwks_recv(c, d)
    \/ \E c \in Callers : fetch_jwks_store(c)
    \/ tick

CacheInit ==
    /\ InitGate /\ InitAuth(IdleRequest) /\ InitValidate(IdleCall)
    /\ \E d \in Rotation : InitOidc(d)

SpecCache == CacheInit /\ [][NextCache]_vars

(***************************************************************************)
(* The scheduling the runtime guarantees: a woken task is polled again and *)
(* a connection attempt returns.  Nothing makes a statement sent to the    *)
(* database return, and nothing makes a peer go away.                      *)
(***************************************************************************)
FairGate ==
    \A r \in Requests :
        /\ WF_vars(get_client_wake(r))
        /\ WF_vars(get_client_ok(r) \/ get_client_err(r))

LiveGate == SpecGate /\ FairGate

\* the request tasks of a server that keeps receiving requests
NextStream ==
    \/ \E r \in Requests : get_client_acquire(r)
    \/ \E r \in Requests : get_client_wake(r)
    \/ \E r \in Requests : get_client_ok(r)
    \/ \E r \in Requests : get_client_err(r)
    \/ \E r \in Requests : handler_ok(r)
    \/ \E r \in Requests : handler_err(r)
    \/ \E r \in Requests : cancel_waiting(r)
    \/ \E r \in Requests : cancel_holding(r)
    \/ \E r \in Requests : next_request(r)
    \/ driver_exit

SpecStream == GateInit /\ [][NextStream]_vars

\* FairGate and, on top of it, every statement returns: each session that
\* is handed out is dropped.  Nothing makes a request arrive, a peer go
\* away or a driver task end.
FairStream ==
    \A r \in Requests :
        /\ WF_vars(get_client_wake(r))
        /\ WF_vars(get_client_ok(r) \/ get_client_err(r))
        /\ WF_vars(handler_ok(r) \/ handler_err(r))

LiveStream == SpecStream /\ FairStream

(***************************************************************************)
(* Claims about the session gate.                                          *)
(***************************************************************************)
Holders == {r \in Requests : holds[r] > 0}

Sessions == {r \in Requests : session[r]}

Finished == {r \in Requests : hpc[r] \in {"done", "cancelled"}}

RECURSIVE SumHolds(_)
SumHolds(S) ==
    IF S = {} THEN 0
    ELSE LET r == CHOOSE x \in S : TRUE IN holds[r] + SumHolds(S \ {r})

\* C18: a handler whose get_client failed answers 500 and one whose
\* statement the database rejected answers 400; by the time the handler has
\* answered, the permit the request took, if any, is back and its session
\* is gone.
C18_ErrorStatuses ==
    \A r \in Requests :
        hpc[r] = "done" =>
            /\ hcause[r] \in {"connect", "statement", "ok"}
            /\ hcause[r] = "connect" => hstatus[r] = 500
            /\ hcause[r] = "statement" => hstatus[r] = 400
            /\ hcause[r] = "ok" => hstatus[r] = 200
            /\ holds[r] = 0
            /\ ~session[r]
            /\ returned[r] = taken[r]

\* C18 witness: one handler has answered 500 after a failed connect, another
\* 400 after a failed statement, both took a permit and gave it back
C18_Witness ==
    \E a, b \in Requests :
        /\ hpc[a] = "done" /\ hcause[a] = "connect" /\ hstatus[a] = 500
        /\ hpc[b] = "done" /\ hcause[b] = "statement" /\ hstatus[b] = 400
        /\ taken[a] = 1 /\ returned[a] = 1
        /\ taken[b] = 1 /\ returned[b] = 1

\* the physical connections open now: one per live session, one per dropped
\* session whose driver task still runs, and the startup test connection
\* until its driver task has ended
OpenConnections ==
    Cardinality(Sessions) + closing + (IF testconn \in {"open", "closing"} THEN 1 ELSE 0)

\* C17: the number of physical connections open at the same time never
\* exceeds max_connections, the connections of dropped sessions whose driver
\* task has not ended and the startup test connection included.
C17_ConnectionsBounded == OpenConnections <= MaxConnections

\* C2: at any time the callers hold at most max_connections sessions, every
\* held session owns exactly one permit, and no permit is in two places (the
\* free permits and the owned ones add up to max_connections).
C2_SessionsBounded ==
    /\ Cardinality(Sessions) <= MaxConnections
    /\ \A r \in Requests : session[r] => holds[r] = 1
    /\ permits >= 0
    /\ permits + SumHolds(Requests) = MaxConnections

\* C2 witness: max_connections sessions are held at once, another task waits
C2_Witness ==
    /\ Cardinality(Sessions) = MaxConnections
    /\ waiters # <<>>

\* C3: a task gives back each permit it was given exactly once, whatever the
\* way it leaves (connect error, statement error, success, cancellation), and
\* once every task has left, all max_connections permits are free again.
C3_PermitReturnedOnce ==
    /\ \A r \in Requests : taken[r] = returned[r] + holds[r]
    /\ \A r \in Finished : holds[r] = 0 /\ returned[r] = taken[r]
    /\ (\A r \in Requests : hpc[r] \in {"idle", "done", "cancelled"})
          => permits = MaxConnections

\* C3 witness: every task has left, one after a connect error, one after a
\* statement error, one cancelled while it owned a permit
C3_Witness ==
    /\ Finished = Requests
    /\ \E a, b, c \in Requests :
          /\ hstatus[a] = 500 /\ returned[a] = 1
          /\ hstatus[b] = 400 /\ returned[b] = 1
          /\ hpc[c] = "cancelled" /\ returned[c] = 1
    /\ permits = MaxConnections

\* a task is given a permit either at once, because one is free when it
\* starts acquiring, or while it waits, in the very step in which another task
\* gives its permit back; and a task starts to wait only when all
\* max_connections permits are owned.
C4_Step ==
    \A r \in Requests :
        /\ (holds[r] = 0 /\ holds'[r] = 1) =>
              \/ hpc[r] = "idle" /\ permits > 0 /\ Cardinality(Holders) < MaxConnections
              \/ /\ hpc[r] = "waiting"
                 /\ \E q \in Requests \ {r} : holds[q] = 1 /\ holds'[q] = 0
        /\ (hpc[r] = "idle" /\ hpc'[r] = "waiting") =>
              Cardinality(Holders) = MaxConnections

\* C4: with max_connections = N, the first N concurrent acquires get their
\* permit without waiting and the (N+1)-th completes only in a step in which
\* an earlier holder gives its permit back: every step satisfies C4_Step.
C4_BlocksUntilRelease == [][C4_Step]_vars

\* C4 witness: with all permits owned, a task that had to wait was handed the
\* permit another task gave back
C4_Witness ==
    /\ \E r \in Requests : hpc[r] = "woken"
    /\ Cardinality(Holders) = MaxConnections
    /\ \E q \in Requests : returned[q] = 1

\* C5: a task waiting for a permit stops waiting (its deadline fires) even
\* when the tasks that own the permits never finish.
C5_WaiterStopsWaiting ==
    \A r \in Requests : (hpc[r] = "waiting") ~> (hpc[r] # "waiting")

\* no permit is free while a task waits in the queue
NoIdlePermit == waiters # <<>> => permits = 0

NextAuth ==
    \/ auth_middleware_call
    \/ auth_middleware_fetch_err
    \/ \E d \in Rotation : auth_middleware_fetched(d)
    \/ tick

AuthInit ==
    /\ InitGate
    /\ InitValidate(IdleCall)
    /\ \E d \in Jwks : InitOidc(d)
    /\ \E rq \in HttpRequests : InitAuth(rq)

SpecAuth == AuthInit /\ [][NextAuth]_vars

\* the requests of a client with a valid token and of one with a token
\* whose claims fail
RecoverRequests ==
    {rq \in HttpRequests :
        /\ rq.path = "/query"
        /\ rq.auth.scheme = "Bearer "
        /\ rq.auth.cred \in {GoodToken, [GoodToken EXCEPT !.claims = "bad"]}}

\* requests served one after the other while the identity provider fails
\* and recovers
NextRecover ==
    \/ auth_middleware_call
    \/ auth_middleware_fetch_err
    \/ \E d \in Rotation : auth_middleware_fetched(d)
    \/ \E rq \in RecoverRequests : auth_middleware_next(rq)
    \/ tick

RecoverInit ==
    /\ InitGate
    /\ InitValidate(IdleCall)
    /\ \E d \in Rotation : InitOidc(d)
    /\ \E rq \in RecoverRequests : InitAuth(rq)

SpecRecover == RecoverInit /\ [][NextRecover]_vars

NextStartup ==
    \/ load_config_ok
    \/ load_config_err
    \/ \E d \in Jwks : oidc_new_ok(d)
    \/ oidc_new_err
    \/ pool_connect_ok
    \/ pool_connect_err
    \/ pool_select_ok
    \/ pool_select_err
    \/ bind_ok
    \/ bind_err
    \/ serve_accept
    \/ test_driver_exit
    \/ tick

\* the process starts: no validator, no pool, no listener
StartupInit ==
    /\ boot = BootStart
    /\ permits = 0
    /\ testconn = "none"
    /\ InitTasks
    /\ now = 0
    /\ cache = NoCache
    /\ InitCallers
    /\ InitAuth(IdleRequest)
    /\ InitValidate(IdleCall)

SpecStartup == StartupInit /\ [][NextStartup]_vars

NextValidate == validate_token_call

\* every configuration, the default one too, with every token, key set,
\* verification time and library
ValidateCalls ==
    [cfg : OidcConfigs \cup {ConfigDefault.oidc}, tok : Jwts \cup {BadJwt}, jwks : ValidateDocs,
     time : VerifyTimes, strict : BOOLEAN]

ValidateInit ==
    /\ InitGate
    /\ InitOidc(DocOld)
    /\ InitAuth(IdleRequest)
    /\ \E call \in ValidateCalls : InitValidate(call)

SpecValidate == ValidateInit /\ [][NextValidate]_vars

(***************************************************************************)
(* Claims about the key-set cache.                                         *)
(***************************************************************************)
Called == {c \in Callers : cpc[c] # "idle"}

\* what each call that has read the cache did with what it read
C6_Call(c) ==
    /\ chit[c] <=> (cseen[c].some /\ cseen[c].age < Ttl)
    /\ chit[c] => /\ ~cfetch[c]
                  /\ cpc[c] = "done"
                  /\ cres[c] = OkJwks(cseen[c].jwks)
    /\ ~chit[c] => cfetch[c]
    /\ (~chit[c] /\ cpc[c] = "done" /\ cres[c].ok) => cres[c].jwks = cdoc[c]

\* the write of a fetched set: the entry becomes that set, stamped now
C6_Store(c) ==
    (cpc[c] = "parsed" /\ cpc'[c] = "done") =>
        /\ cache' = [some |-> TRUE, jwks |-> cdoc[c], cached_at |-> now]
        /\ cres'[c] = OkJwks(cdoc[c])

\* C6: get_jwks returns the cached set, without a fetch, exactly when an
\* entry exists and is younger than the TTL; otherwise it fetches, and a
\* fetched set replaces the entry, stamped with the current time, and is what
\* the call returns.  No call returns a cached set of age >= TTL.
C6_CacheContract ==
    /\ [](\A c \in Called : C6_Call(c))
    /\ [][\A c \in Callers : C6_Store(c)]_vars

\* C6 witness: one call was served a stale entry's replacement it fetched
\* itself, and a later call was served that entry from the cache
C6_Witness ==
    \E a, b \in Callers :
        /\ cpc[a] = "done" /\ ~chit[a] /\ cseen[a].age >= Ttl
        /\ cres[a] = OkJwks(cdoc[a])
        /\ cpc[b] = "done" /\ chit[b] /\ cstart[b] > cstart[a]
        /\ cres[b] = OkJwks(cdoc[a])

\* a fetch ends in failure; the cache is written; the stamp moves
C20_Step ==
    /\ \A c \in Callers :
          (cpc[c] = "in_flight" /\ cpc'[c] = "done") =>
              /\ cres'[c] = ErrJwks
              /\ cache' = cache
    /\ cache' # cache =>
          \E c \in Callers :
              /\ cpc[c] = "parsed" /\ cpc'[c] = "done"
              /\ cache'.some /\ cache'.jwks = cdoc[c]
    /\ cache'.cached_at >= cache.cached_at

\* C20: a failed fetch leaves the cached key set and its cached_at as they
\* were; the cache is written only by a fetch that received and parsed a
\* whole document, with that document; and cached_at never decreases,
\* concurrent refreshes included.
C20_FailedFetchKeepsCache == [][C20_Step]_vars

\* C20 witness: two tasks fetched at once, one failed and the other stored
\* its document over the pre-loaded entry, at a later time
C20_Witness ==
    \E a, b \in Callers :
        /\ cpc[a] = "done" /\ cfetch[a] /\ cres[a] = ErrJwks
        /\ cpc[b] = "done" /\ cfetch[b] /\ cres[b] = OkJwks(cdoc[b])
        /\ cache.some /\ cache.jwks = cdoc[b] /\ cache.cached_at > 0

\* C7: two get_jwks calls made less than TTL apart send at most one request
\* to the identity provider between them.
C7_AtMostOneFetch ==
    \A a, b \in Called :
        (a # b /\ cstart[a] - cstart[b] < Ttl /\ cstart[b] - cstart[a] < Ttl)
            => ~(cfetch[a] /\ cfetch[b])

\* C8: at most one fetch to the identity provider is in flight at any time.
C8_SingleFlight ==
    Cardinality({c \in Callers : cpc[c] = "in_flight"}) <= 1

(***************************************************************************)
(* Claims about auth_middleware and validate_token.                        *)
(***************************************************************************)
Protected == areq.path # "/health"

BearerHeader == areq.auth.kind = "text" /\ areq.auth.scheme = "Bearer "

\* C1: the handler of a request to a protected path runs only when
\* validate_token returned Ok, for the token of that request's own bearer
\* header, and it is the handler of the request's route; a request with no
\* Authorization header, or with one that does not start with the bearer
\* scheme, is answered 401 and no handler runs; a /health request reaches its
\* handler whatever its headers, also with none.
C1_HandlerOnlyAfterValidation ==
    apc = "done" =>
        /\ (Protected /\ aout.ran # "none") =>
              /\ BearerHeader
              /\ aout.vres = "ok"
              /\ aout.got
              /\ aout.key # NoKey
              /\ areq.auth.cred.sig = aout.key
              /\ aout.ran = RouteHandler(areq.path)
        /\ (Protected /\ ~BearerHeader) =>
              /\ aout.status = 401
              /\ aout.ran = "none"
              /\ aout.vres = "none"
        /\ (Protected /\ aout.vres # "ok") => aout.status = 401 /\ aout.ran = "none"
        /\ ~Protected => aout.ran = "health_check" /\ aout.status = 0

\* C1 witness: a validated request reached execute_query
C1_Witness ==
    /\ apc = "done"
    /\ areq.path = "/query"
    /\ aout.ran = "execute_query"
    /\ aout.vres = "ok"

\* the token has passed decode_header and get_jwks returned a key set
ReachedFindKey == apc = "done" /\ Protected /\ BearerHeader /\ aout.got

KidAbsent ==
    /\ areq.auth.cred.kid # 0
    /\ \A i \in 1..Len(aout.jwks) : aout.jwks[i].kid # areq.auth.cred.kid

\* C9: a token whose header declares a kid that no key of the key set
\* get_jwks returned carries is rejected with the no-matching-key error: no
\* key is selected, signature verification is not reached, the answer is 401.
C9_UnknownKidRejected ==
    (ReachedFindKey /\ KidAbsent) =>
        /\ aout.vres = "err"
        /\ aout.err = "key_not_found"
        /\ aout.key = NoKey
        /\ ~aout.verified
        /\ aout.status = 401
        /\ aout.ran = "none"

\* C9 witness: the declared kid is unknown although the first key of the set
\* is the very key that signed the token
C9_Witness ==
    /\ ReachedFindKey
    /\ KidAbsent
    /\ Len(aout.jwks) > 0
    /\ aout.jwks[1] = areq.auth.cred.sig
    /\ aout.err = "key_not_found"

\* OidcConfig (config.rs:26-34) has no setting that enables the no-kid
\* fallback, so no configuration enables it.
KidFallbackEnabled == FALSE

\* C10: unless the fallback is enabled in the configuration, a token that
\* declares no kid selects no key and validation fails.
C10_NoKidSelectsNoKey ==
    (ReachedFindKey /\ areq.auth.cred.kid = 0 /\ ~KidFallbackEnabled) =>
        /\ aout.key = NoKey
        /\ aout.vres = "err"

\* every reason for which auth_middleware answers 401
Causes ==
    {"missing_header", "header_format", "decode_header", "fetch_jwks",
     "key_not_found", "decoding_key", "decode"}

\* the request was turned away
Rejected == apc = "done" /\ Protected /\ aout.ran = "none"

\* C12: every rejection, whatever its cause (no or malformed header, bad
\* token header, key set not fetched, no matching key, unsupported key, bad
\* signature or claims), is the same response: status 401 and an empty body;
\* the cause is in the outcome's err only, which is what the log receives.
C12_UniformUnauthorized ==
    Rejected =>
        /\ aout.err \in Causes
        /\ [status |-> aout.status, body |-> aout.body] = [status |-> 401, body |-> ""]

\* C12 witness: a token with a published key whose signature or claims fail
\* was rejected after verification, with the bare 401
C12_Witness ==
    /\ Rejected
    /\ aout.err = "decode"
    /\ aout.verified
    /\ aout.status = 401
    /\ aout.body = ""

\* the previous request was rejected because fetch_jwks failed
AfterFetchError == aprev.err = "fetch_jwks"

\* a failed fetch ends validate_token with an error and the request with 401
C13_FetchErrorIsAnError ==
    (apc = "done" /\ aout.err = "fetch_jwks") =>
        /\ aout.vres = "err"
        /\ aout.status = 401
        /\ aout.ran = "none"

\* the request after a failed fetch asks the identity provider again
C13_Retry ==
    (AfterFetchError /\ apc = "start" /\ apc' # "start"
        /\ BearerHeader /\ decode_header(areq.auth.cred)) => apc' = "fetching"

\* once the provider answers, the valid token whose key it publishes passes
C13_Recovered ==
    (AfterFetchError /\ apc = "done" /\ aout.got /\ areq.auth.cred = GoodToken
        /\ GoodToken.sig \in {aout.jwks[i] : i \in 1..Len(aout.jwks)}) =>
            /\ aout.vres = "ok"
            /\ aout.ran = RouteHandler(areq.path)
            /\ cache.some /\ cache.jwks = aout.jwks

\* C13: when the key-set endpoint fails while the cache is stale,
\* validate_token returns an error and the process keeps serving; the failed
\* fetch leaves nothing behind that stops a retry: the next request fetches
\* again and, the provider having recovered, a valid token succeeds.
C13_FetchFailureRecovers ==
    /\ [](C13_FetchErrorIsAnError /\ C13_Recovered)
    /\ [][C13_Retry]_vars

\* C13 witness: the request before failed on the fetch, this one fetched the
\* key set and its valid token was accepted
C13_Witness ==
    /\ AfterFetchError
    /\ apc = "done"
    /\ aout.got
    /\ areq.auth.cred = GoodToken
    /\ aout.vres = "ok"
    /\ aout.ran = "execute_query"

(***************************************************************************)
(* Claims about startup.                                                   *)
(***************************************************************************)
\* the listener exists only after all three constructors returned Ok
C14_Ready ==
    (boot.listening \/ boot.accepted) =>
        /\ boot.config
        /\ boot.validator /\ cache.some
        /\ boot.pool /\ permits = MaxConnections /\ testconn \in {"closing", "closed"}
        /\ boot.failed = ""

\* a failed step ends the process before it listens
C14_Aborted ==
    boot.failed # "" =>
        /\ boot.pc = "exited"
        /\ ~boot.listening
        /\ ~boot.accepted

\* C14: the process accepts requests only after the configuration is
\* loaded, the first key-set fetch has succeeded and the database test has
\* succeeded; a failure of any of these steps ends the process, for good,
\* before it listens.
C14_StartupAllOrNothing ==
    /\ [](C14_Ready /\ C14_Aborted)
    /\ [][boot.pc = "exited" => boot' = boot]_vars

\* C14 witness: a request is accepted, the key set is loaded and the pool
\* exists
C14_Witness ==
    /\ boot.accepted
    /\ boot.listening
    /\ cache.some
    /\ permits = MaxConnections

(***************************************************************************)
(* Claims about validate_token.                                            *)
(***************************************************************************)
\* C11: no development bypass is reachable: whatever skip_validation and
\* dev_secret are, validate_token returns what it returns with both absent,
\* and no token signed with the dev secret is accepted.
C11_NoDevBypass ==
    vpc = "done" =>
        /\ vout = validate_token(NoBypass(vin.cfg), vin.tok, vin.jwks, vin.time, vin.strict)
        /\ vin.tok.sig = DevSecretKey => vout.vres = "err"

\* C11 witness: skip_validation is Some(true), a dev secret is configured,
\* the token is signed with it and otherwise in order, and it was rejected
C11_Witness ==
    /\ vpc = "done"
    /\ vin.cfg.skip_validation = "Some(true)"
    /\ vin.cfg.dev_secret # None
    /\ vin.tok.sig = DevSecretKey
    /\ ValidateClaims(vin.cfg, vin.tok, vin.time, vin.strict)
    /\ vout.vres = "err"

\* the token is signed with a key of a supported type that the key set
\* publishes, and its header names that key
SignedByPublishedKey ==
    /\ vin.tok.hdr = "ok"
    /\ vin.tok.sig.kty \in {"RSA", "EC"}
    /\ vin.tok.sig \in {vin.jwks[i] : i \in 1..Len(vin.jwks)}
    /\ vin.tok.kid # 0
    /\ vin.tok.kid = vin.tok.sig.kid
    /\ vin.tok.alg = AlgOf(vin.tok.sig)

\* iss is the configured issuer and aud the configured audience or, with
\* none configured, the client id
IssAudMatch ==
    /\ vin.tok.iss = vin.cfg.issuer_url
    /\ vin.tok.aud = IF vin.cfg.audience # None THEN vin.cfg.audience ELSE vin.cfg.client_id

\* C15: every token signed with a published key of a supported type (RSA or
\* EC), with exp in the future and iss and aud matching the configuration,
\* is accepted, and the claims returned carry the token's sub.
C15_ValidTokenAccepted ==
    (vpc = "done" /\ SignedByPublishedKey /\ IssAudMatch /\ vin.tok.exp > vin.time) =>
        /\ vout.vres = "ok"
        /\ vout.sub = vin.tok.sub

\* the token passes every check but, possibly, the one of exp
ValidButForExp ==
    /\ SignedByPublishedKey
    /\ vin.tok.sig.kty = "RSA"
    /\ IssAudMatch

\* C16: a token whose exp is before the verification time is rejected: for
\* every verification time now and every exp < now, validation fails.
C16_ExpiredRejected ==
    (vpc = "done" /\ vin.tok.exp < vin.time) => vout.vres = "err"

\* C16 as the code has it: a token whose exp is more than the leeway of 60
\* seconds before the verification time is rejected, whatever else holds of
\* it; one that is otherwise valid and expired by at most the leeway is
\* accepted.
C16_ExpiredBeyondLeewayRejected ==
    vpc = "done" =>
        /\ vin.tok.exp < vin.time - Leeway => vout.vres = "err"
        /\ (ValidButForExp /\ vin.tok.exp >= vin.time - Leeway) => vout.vres = "ok"

\* C16 witness: signature, issuer and audience are in order, exp is more
\* than the leeway in the past, and the token was rejected at decode
C16_Witness ==
    /\ vpc = "done"
    /\ ValidButForExp
    /\ vin.tok.exp < vin.time - Leeway
    /\ vout.vres = "err"
    /\ vout.err = "decode"

(***************************************************************************)
(* Claims about the configuration.                                         *)
(***************************************************************************)
\* C19: Config::default() has the development bypass unset, skip_validation
\* and dev_secret both None, next to the other values test_default_config
\* asserts; stated of a validator that is given the default configuration.
C19_DefaultBypassUnset ==
    vin.cfg = ConfigDefault.oidc =>
        /\ ConfigDefault.server.bind_address = "0.0.0.0:8080"
        /\ ConfigDefault.database.host = "localhost"
        /\ ConfigDefault.database.port = 5432
        /\ ConfigDefault.database.username = "postgres"
        /\ ConfigDefault.database.password = "password"
        /\ ConfigDefault.database.database = "postgres"
        /\ ConfigDefault.database.max_connections = 10
        /\ vin.cfg.issuer_url = "https://your-oidc-provider.com"
        /\ vin.cfg.client_id = "your-client-id"
        /\ vin.cfg.audience = None
        /\ vin.cfg.jwks_cache_duration_seconds = 3600
        /\ vin.cfg.skip_validation = None
        /\ vin.cfg.dev_secret = None

=============================================================================
